---- MODULE Spec2Model ----
(***************************************************************************)
(* The masking editor of src/components/ImageStudio.tsx (MaskingEditor,    *)
(* lines 262-568) as a state machine: two canvases sized by                *)
(* resizeCanvases, the overlay's alpha channel, the pointer handlers, the  *)
(* clear / invert transforms and handleSave.                               *)
(*                                                                         *)
(* The overlay is kept per pixel as its 8-bit alpha (its colour is always  *)
(* the red highlight).  The 2D canvas operations the handlers call are     *)
(* modelled by their Porter-Duff formulas on 8-bit alpha:                  *)
(*   source-over      a' = sa + a*(255-sa)/255                             *)
(*   destination-out  a' = a*(255-sa)/255                                  *)
(* where sa is the source alpha after globalAlpha has been applied.        *)
(*                                                                         *)
(* Beside the editor, each under a specification of its own: the request   *)
(* parts of generateOrEditImage and the progress timer of generateVideo    *)
(* (src/services/geminiService.ts), the reference images of ImageStudio    *)
(* (src/components/ImageStudio.tsx lines 55-126) and handleVideoSubmit of  *)
(* VideoGenerator (src/unnamed/part_000).                                  *)
(***************************************************************************)
EXTENDS Integers, Sequences, FiniteSets, TLC

VARIABLES
    isOpen,         \* prop isOpen: the editor is mounted and shown
    imageUrl,       \* prop imageUrl: the source image, as its natural <<width, height>>
    initialMask,    \* prop initialMask: a raster [w, h, px] or NoMask
    container,      \* containerRef.current's <<clientWidth, clientHeight>>
    pendingImg,     \* number of `img` objects of resizeCanvases whose onload has not run
    pendingMask,    \* the `maskImg` objects whose onload has not run: captured geometry
    imageCanvas,    \* imageCanvasRef.current: [w, h, drawn]
    drawingCanvas,  \* drawingCanvasRef.current: [w, h, px], px the alpha of each pixel
    isDrawing,      \* isDrawing.current
    lastPos,        \* lastPos.current: a point or NoPos
    brushSize,      \* useState brushSize
    isErasing,      \* useState isErasing
    edits,          \* number of user actions so far that changed the brush, the container or the overlay
    lastWrite,      \* history: the handler that last wrote the overlay's pixels
    emitted,        \* the onSave calls made by the handler that ran last
    stroke,         \* history: the paint stroke drawn on a transparent overlay, or NoStroke
    call,           \* generateOrEditImage: the arguments of the invocation, or NoCall
    parts,          \* generateOrEditImage: the `parts` array of the request
    referenceImages,\* ImageStudio: useState referenceImages, a sequence of ImageFile
    error,          \* ImageStudio: useState error, a message or NoError
    reading,        \* ImageStudio: the batches of files whose Promise.all has not settled
    dragImage,      \* ImageStudio: dragImage.current, an index or NoIndex
    dragOverImage,  \* ImageStudio: dragOverImage.current, an index or NoIndex
    uploads,        \* number of batches handed to processAndSetReferenceFiles so far
    videoPrompt,    \* VideoGenerator: useState videoPrompt
    startImage,     \* VideoGenerator: useState startImage, an ImageFile or NoImage
    videoLoading,   \* VideoGenerator: useState isLoading
    videoError,     \* VideoGenerator: useState error, a message or NoError
    generatedVideoUrl,      \* VideoGenerator: useState generatedVideoUrl, or NoUrl
    videoGenerationStatus,  \* VideoGenerator: useState videoGenerationStatus
    hasApiKey,      \* VideoGenerator: useState hasApiKey
    videoPc,        \* generateVideo: where the invocation stands
    progressInterval,       \* generateVideo: the timer of line 188: "unset", "active", "cleared"
    messageIndex,   \* generateVideo: let messageIndex
    polls,          \* generateVideo: number of getVideosOperation calls so far
    lateProgress    \* history: onProgress was called after the promise had settled

\* the state of MaskingEditor
editor == <<isOpen, imageUrl, initialMask, container, pendingImg,
            pendingMask, imageCanvas, drawingCanvas, isDrawing, lastPos, brushSize,
            isErasing, edits, lastWrite, emitted, stroke>>

\* the state of a generateOrEditImage invocation
request == <<call, parts>>

\* the reference images of ImageStudio
studio == <<referenceImages, error, reading, dragImage, dragOverImage, uploads>>

\* VideoGenerator and its generateVideo invocation
video == <<videoPrompt, startImage, videoLoading, videoError, generatedVideoUrl,
           videoGenerationStatus, hasApiKey, videoPc, progressInterval,
           messageIndex, polls, lateProgress>>

\* everything outside MaskingEditor
outside == <<request, studio, video>>

vars == <<editor, outside>>

----------------------------------------------------------------------------
(* Bounds of the model *)

MaxEdits == 3
MaxPending == 1
MaxLoads == 2
MaxDim == 6

----------------------------------------------------------------------------
(* Program constants *)

DefaultBrushSize == 40
MinBrushSize == 5
MaxBrushSize == 150
GlobalAlpha == 128
DefaultCanvasWidth == 300
DefaultCanvasHeight == 150

NoMask == [w |-> 0, h |-> 0, px |-> <<>>]
NoPos == <<>>
NoStroke == [pts |-> <<>>, d |-> 0]

White == <<255, 255, 255, 255>>
Black == <<0, 0, 0, 255>>
Transparent == <<0, 0, 0, 0>>

(* Inputs *)
Images == {<<400, 300>>}
ContainerSizes == {<<6, 4>>, <<4, 6>>}
InitialContainer == <<6, 4>>
BrushSizes == {MinBrushSize, DefaultBrushSize, MaxBrushSize}
Points == {<<0, 0>>, <<4, 3>>}
EdgeAlphas == {0, 1}

Min(a, b) == IF a < b THEN a ELSE b

\* every pixel of a canvas that fits a container is tracked; of the default
\* 300 x 150 canvas, the top-left Window x Window pixels are
Window == CHOOSE n \in 1 .. DefaultCanvasHeight :
              /\ \A c \in ContainerSizes : c[1] <= n /\ c[2] <= n
              /\ \E c \in ContainerSizes : c[1] = n \/ c[2] = n

----------------------------------------------------------------------------
(* Geometry: resizeCanvases, img.onload *)

\* the comparison of the two ratios the wrong way round: the image covers the container
FitInsideCover(img, cont) ==
    IF img[1] * cont[2] < cont[1] * img[2]
    THEN [w |-> cont[1], h |-> (cont[1] * img[2]) \div img[1]]
    ELSE [w |-> (cont[2] * img[1]) \div img[2], h |-> cont[2]]

\* canvas.width = x stores x truncated to an integer
FitInside(img, cont) ==
    IF img[1] * cont[2] > cont[1] * img[2]
    THEN [w |-> cont[1], h |-> (cont[1] * img[2]) \div img[1]]
    ELSE [w |-> (cont[2] * img[1]) \div img[2], h |-> cont[2]]

\* the pixels of a w x h raster that the model tracks
Pixels(w, h) == (0 .. (Min(w, Window) - 1)) \X (0 .. (Min(h, Window) - 1))

BlankPixels(w, h) == [p \in Pixels(w, h) |-> 0]

DefaultCanvas == [w |-> DefaultCanvasWidth, h |-> DefaultCanvasHeight,
                  px |-> BlankPixels(DefaultCanvasWidth, DefaultCanvasHeight)]

----------------------------------------------------------------------------
(* 8-bit compositing *)

Div255(x) == (x + 127) \div 255

\* a 'source-over' that replaces the destination ('copy')
SourceOverCopy(dst, sa) == sa

SourceOver(dst, sa) == sa + Div255(dst * (255 - sa))

DestinationOut(dst, sa) == Div255(dst * (255 - sa))

\* the alpha a source pixel of alpha a has once ctx.globalAlpha = 0.5 is applied
WithGlobalAlpha(a) == Div255(a * GlobalAlpha)

----------------------------------------------------------------------------
(* The rasteriser behind ctx.stroke(): a line of width `width` with round    *)
(* caps covers the points within width/2 of the segment.  Coordinates are   *)
(* scaled by 4 so that pixel corners, pixel centres and width/2 are         *)
(* integers.  A pixel wholly inside gets the full source alpha, a pixel     *)
(* wholly outside gets none, and an anti-aliased pixel in between gets a    *)
(* partial alpha `edge` that depends on the rasteriser.                     *)

Dot(u, v) == u[1] * v[1] + u[2] * v[2]

Sub(u, v) == <<u[1] - v[1], u[2] - v[2]>>

\* the distance from P to the segment AB is at most R
WithinOfSegment(P, A, B, R) ==
    LET ab == Sub(B, A)
        ap == Sub(P, A)
        bp == Sub(P, B)
        l2 == Dot(ab, ab)
        t  == Dot(ap, ab)
    IN  IF l2 = 0 \/ t <= 0 THEN Dot(ap, ap) <= R * R
        ELSE IF t >= l2 THEN Dot(bp, bp) <= R * R
        ELSE Dot(ap, ap) * l2 - t * t <= R * R * l2

Scaled(pt) == <<4 * pt[1], 4 * pt[2]>>

Corners(p) == {<<4 * p[1] + dx, 4 * p[2] + dy>> : dx \in {0, 4}, dy \in {0, 4}}

Centre(p) == <<4 * p[1] + 2, 4 * p[2] + 2>>

Coverage(p, a, b, width) ==
    IF \A c \in Corners(p) : WithinOfSegment(c, Scaled(a), Scaled(b), 2 * width)
    THEN "full"
    ELSE IF ~WithinOfSegment(Centre(p), Scaled(a), Scaled(b), 2 * width + 3)
    THEN "none"
    ELSE "edge"

\* Coverage tabulated over the pointer positions, brush sizes and tracked pixels
\* of the model (a constant, evaluated once)
CoverageTable ==
    [a \in Points, b \in Points, width \in BrushSizes |->
        [p \in (0 .. (Window - 1)) \X (0 .. (Window - 1)) |-> Coverage(p, a, b, width)]]

\* a stroke() whose line width is the one the editor was mounted with
CoverageMapDefaultWidth(px, a, b, width) ==
    [p \in DOMAIN px |-> CoverageTable[a, b, DefaultBrushSize][p]]

\* how stroke() covers each pixel for the path moveTo(a); lineTo(b)
CoverageMap(px, a, b, width) == [p \in DOMAIN px |-> CoverageTable[a, b, width][p]]

\* The alpha stroke() lays on a pixel of coverage c, with strokeStyle 'red' (opaque)
\* and globalAlpha 0.5.  The HTML standard prunes zero-length segments before
\* stroking, so a path with a = b paints nothing; some engines paint the round cap
\* as a dot (dot = TRUE).
StrokeAlpha(c, zeroLength, edge, dot) ==
    IF zeroLength /\ ~dot THEN 0
    ELSE IF c = "full" THEN WithGlobalAlpha(255)
    ELSE IF c = "edge" THEN edge
    ELSE 0

----------------------------------------------------------------------------
(* drawLine, lines 378-393 *)

\* the two composite operations the wrong way round
CompositeOperationSwapped(erasing) ==
    IF erasing THEN "source-over" ELSE "destination-out"

CompositeOperation(erasing) ==
    IF erasing THEN "destination-out" ELSE "source-over"

Composite(op, dst, sa) ==
    IF op = "destination-out" THEN DestinationOut(dst, sa) ELSE SourceOver(dst, sa)

\* cov is CoverageMap(px, a, b, lineWidth)
drawLine(px, cov, zeroLength, erasing, edge, dot) ==
    [p \in DOMAIN px |->
        Composite(CompositeOperation(erasing), px[p],
                  StrokeAlpha(cov[p], zeroLength, edge, dot))]

----------------------------------------------------------------------------
(* clearMask, lines 417-423: clearRect(0, 0, canvas.width, canvas.height) *)

ClearRect(px, w, h) ==
    [p \in DOMAIN px |-> IF p[1] < w /\ p[2] < h THEN 0 ELSE px[p]]

\* a clearRect that passes canvas.height for the width
clearMaskPixelsSquare(canvas) == ClearRect(canvas.px, canvas.h, canvas.h)

clearMaskPixels(canvas) == ClearRect(canvas.px, canvas.w, canvas.h)

----------------------------------------------------------------------------
(* invertMask, lines 425-450 *)

\* fillRect(0, 0, w, h) with fillStyle 'red' under the given composite operation
\* and globalAlpha 0.5
FillRect(px, w, h, op) ==
    [p \in DOMAIN px |->
        IF p[1] < w /\ p[2] < h
        THEN Composite(op, px[p], WithGlobalAlpha(255))
        ELSE px[p]]

\* ctx.drawImage(src, 0, 0) of a raster of alphas src under the context's composite
\* operation; galpha says whether the context's globalAlpha is 0.5 (else 1)
DrawImage(px, src, op, galpha) ==
    [p \in DOMAIN px |->
        IF p \in DOMAIN src
        THEN Composite(op, px[p],
                       IF galpha THEN WithGlobalAlpha(src[p]) ELSE src[p])
        ELSE px[p]]

invertMaskPixels(canvas) ==
    LET temp    == canvas.px                                    \* lines 431-436
        cleared == ClearRect(canvas.px, canvas.w, canvas.h)     \* line 439
        filled  == FillRect(cleared, canvas.w, canvas.h, "source-over")  \* 442-445
    IN  DrawImage(filled, temp, "destination-out", TRUE)        \* lines 448-449

----------------------------------------------------------------------------
(* handleSave, lines 452-521 *)

\* getImageData of the overlay: the highlight is red wherever anything is painted
GetImageData(px) ==
    [p \in DOMAIN px |-> IF px[p] > 0 THEN <<255, 0, 0, px[p]>> ELSE Transparent]

\* lines 480-487: the test "drawn on"
IsDrawnOn(rgba) == rgba[4] > 0

\* a silhouette that keeps only the pixels of at least half opacity
SilhouetteThresholded(data) ==
    [p \in DOMAIN data |-> IF data[p][4] >= 128 THEN White ELSE Transparent]

\* lines 479-488: the pixels drawn on become opaque white, the others are kept
Silhouette(data) ==
    [p \in DOMAIN data |-> IF IsDrawnOn(data[p]) THEN White ELSE data[p]]

\* line 507: the test "pixel on silhouette is not transparent"
IsNotTransparent(rgba) == rgba[4] > 0

\* lines 502-516: black fill, then white wherever the silhouette is not transparent
FinalData(sourceData) ==
    [p \in DOMAIN sourceData |->
        IF IsNotTransparent(sourceData[p]) THEN <<255, 255, 255, Black[4]>> ELSE Black]

MaskWidth(canvas, img) == canvas.w

MaskHeight(canvas, img) == canvas.h

ExportMask(canvas, img) ==
    [w  |-> MaskWidth(canvas, img),
     h  |-> MaskHeight(canvas, img),
     px |-> FinalData(Silhouette(GetImageData(canvas.px)))]

\* finalCanvas.toDataURL('image/png'), line 518.  PNG is lossless: the image is
\* kept as its size and its RGBA bytes in row-major order, and the payload of the
\* data URL is their base64 text (a sequence of 6-bit digits, Pad for '=').
Pad == 64

\* the number of pixels of a row that are tracked
TrackedWidth(w) == Min(w, Window)

RasterBytes(mask) ==
    LET tw == TrackedWidth(mask.w)
    IN  [k \in 1 .. (4 * Cardinality(DOMAIN mask.px)) |->
            mask.px[<<((k - 1) \div 4) % tw, ((k - 1) \div 4) \div tw>>][((k - 1) % 4) + 1]]

Btoa(bytes) ==
    LET n      == Len(bytes)
        groups == (n + 2) \div 3
        b(i)   == IF i <= n THEN bytes[i] ELSE 0
    IN  [k \in 1 .. (4 * groups) |->
            LET g  == (k - 1) \div 4
                b1 == b(3 * g + 1)
                b2 == b(3 * g + 2)
                b3 == b(3 * g + 3)
                j  == (k - 1) % 4
            IN  IF 3 * g + j > n THEN Pad
                ELSE IF j = 0 THEN b1 \div 4
                ELSE IF j = 1 THEN (b1 % 4) * 16 + b2 \div 16
                ELSE IF j = 2 THEN (b2 % 16) * 4 + b3 \div 64
                ELSE b3 % 64]

ToDataURL(mask) ==
    [header  |-> "data:image/png;base64",
     w       |-> mask.w,
     h       |-> mask.h,
     tracked |-> DOMAIN mask.px,
     payload |-> Btoa(RasterBytes(mask))]

\* line 278: arr[0].match(/:(.*?);/)[1]
MimeOf(header) == IF header = "data:image/png;base64" THEN "image/png" ELSE ""

\* an atob whose characters keep only seven bits
AtobSevenBit(text) ==
    LET pad    == Cardinality({k \in (Len(text) - 1) .. Len(text) : text[k] = Pad})
        d(k)   == IF text[k] = Pad THEN 0 ELSE text[k]
    IN  [i \in 1 .. (3 * (Len(text) \div 4) - pad) |->
            LET g == (i - 1) \div 3
                j == (i - 1) % 3
            IN  (IF j = 0 THEN d(4 * g + 1) * 4 + d(4 * g + 2) \div 16
                 ELSE IF j = 1 THEN (d(4 * g + 2) % 16) * 16 + d(4 * g + 3) \div 4
                 ELSE (d(4 * g + 3) % 4) * 64 + d(4 * g + 4)) % 128]

\* lines 283-288: atob, then each character code stored in a Uint8Array
Atob(text) ==
    LET pad    == Cardinality({k \in (Len(text) - 1) .. Len(text) : text[k] = Pad})
        d(k)   == IF text[k] = Pad THEN 0 ELSE text[k]
    IN  [i \in 1 .. (3 * (Len(text) \div 4) - pad) |->
            LET g == (i - 1) \div 3
                j == (i - 1) % 3
            IN  (IF j = 0 THEN d(4 * g + 1) * 4 + d(4 * g + 2) \div 16
                 ELSE IF j = 1 THEN (d(4 * g + 2) % 16) * 16 + d(4 * g + 3) \div 4
                 ELSE (d(4 * g + 3) % 4) * 64 + d(4 * g + 4)) % 256]

\* the raster a PNG of the given size and bytes decodes to
DecodeRaster(w, h, tracked, bytes) ==
    LET tw == TrackedWidth(w)
    IN  [w  |-> w,
         h  |-> h,
         px |-> [p \in tracked |->
                    LET k == 4 * (p[2] * tw + p[1])
                    IN  <<bytes[k + 1], bytes[k + 2], bytes[k + 3], bytes[k + 4]>>]]

\* dataURLtoFile, lines 276-290; the File is kept as its name, its type and the
\* raster its bytes decode to
dataURLtoFile(dataurl, filename) ==
    [name |-> filename,
     type |-> MimeOf(dataurl.header),
     mask |-> DecodeRaster(dataurl.w, dataurl.h, dataurl.tracked, Atob(dataurl.payload))]

\* lines 518-520: the file handed to onSave
SavedFile(mask) == dataURLtoFile(ToDataURL(mask), "mask.png")

----------------------------------------------------------------------------
(* Seeding from initialMask: maskImg.onload, lines 339-354 *)

\* the alpha of the mask image drawn scaled to w x h (nearest source pixel)
ScaledMaskAlpha(mask, w, h) ==
    [p \in Pixels(w, h) |->
        LET sx == Min((p[1] * mask.w) \div w, mask.w - 1)
            sy == Min((p[2] * mask.h) \div h, mask.h - 1)
            sp == <<sx, sy>>
        IN  IF sp \in DOMAIN mask.px THEN mask.px[sp][4] ELSE 255]

\* tempCtx: drawImage(maskImg), then 'source-in' fillRect red: the result keeps the
\* destination's alpha (the fill is opaque: alpha_s * alpha_b)
SourceIn(dst, sa) == Div255(sa * dst)

SeedRaster(mask, w, h) ==
    LET drawn == ScaledMaskAlpha(mask, w, h)
    IN  [p \in DOMAIN drawn |-> SourceIn(drawn[p], 255)]

seedPixels(px, mask, geom) ==
    DrawImage(px, SeedRaster(mask, geom.w, geom.h), "source-over", TRUE)

\* a previously exported mask at geometry g: the left column selected
LeftColumnMask(g) ==
    [w |-> g.w, h |-> g.h,
     px |-> [p \in Pixels(g.w, g.h) |-> IF p[1] = 0 THEN White ELSE Black]]

----------------------------------------------------------------------------
(* The state machine *)

\* a canvas ref that is null
NoCanvas == [w |-> 0, h |-> 0, px |-> <<>>]

\* lastWrite: the handler, and for a stroke handler its mode and pointer position
Wrote(op) == [op |-> op, erasing |-> FALSE, at |-> <<>>]

Stroked(op, erasing, p) == [op |-> op, erasing |-> erasing, at |-> p]

IsBlank(px) == \A p \in DOMAIN px : px[p] = 0

\* a pointer position over the drawing canvas (getMousePos, lines 369-376)
OverCanvas(p) == p[1] < drawingCanvas.w /\ p[2] < drawingCanvas.h

props == <<imageUrl, initialMask>>

brush == <<brushSize, isErasing>>

pointer == <<isDrawing, lastPos>>

loads == <<pendingImg, pendingMask>>

\* no generateOrEditImage invocation has been made
NoCall == [prompt |-> "", baseImage |-> <<>>, referenceImages |-> <<>>, maskImage |-> <<>>]

RequestIdle == call = NoCall /\ parts = <<>>

NoError == ""

NoIndex == -1

\* ImageStudio as mounted, lines 56-66
StudioIdle ==
    /\ referenceImages = <<>>
    /\ error = NoError
    /\ reading = <<>>
    /\ dragImage = NoIndex
    /\ dragOverImage = NoIndex
    /\ uploads = 0

NoImage == [file |-> [name |-> "", type |-> ""], base64 |-> ""]

NoUrl == ""

\* VideoGenerator as mounted with an API key selected (part_000 lines 55-61), and
\* no generateVideo invocation made
VideoIdle ==
    /\ videoPrompt = ""
    /\ startImage = NoImage
    /\ videoLoading = FALSE
    /\ videoError = NoError
    /\ generatedVideoUrl = NoUrl
    /\ videoGenerationStatus = ""
    /\ hasApiKey = TRUE
    /\ videoPc = "idle"
    /\ progressInterval = "unset"
    /\ messageIndex = 0
    /\ polls = 0
    /\ lateProgress = FALSE

\* nothing outside the editor is in progress
OutsideIdle == RequestIdle /\ StudioIdle /\ VideoIdle

\* the editor as mounted with isOpen = true: the effect of lines 359-367 has called
\* resizeCanvases once, and its image has not loaded yet
Mounted(seeded) ==
    /\ isOpen = TRUE
    /\ imageUrl \in Images
    /\ initialMask = IF seeded
                     THEN LeftColumnMask(FitInside(imageUrl, InitialContainer))
                     ELSE NoMask
    /\ container = InitialContainer
    /\ pendingImg = 1
    /\ pendingMask = <<>>
    /\ imageCanvas = [w |-> DefaultCanvasWidth, h |-> DefaultCanvasHeight, drawn |-> FALSE]
    /\ drawingCanvas = DefaultCanvas
    /\ isDrawing = FALSE
    /\ lastPos = NoPos
    /\ brushSize = DefaultBrushSize
    /\ isErasing = FALSE
    /\ edits = 0
    /\ lastWrite = Wrote("none")
    /\ emitted = <<>>
    /\ stroke = NoStroke
    /\ OutsideIdle

\* the editor not rendered (isOpen = false, line 524): its refs are null
EditorClosed ==
    /\ isOpen = FALSE
    /\ imageUrl \in Images
    /\ initialMask = NoMask
    /\ container = InitialContainer
    /\ pendingImg = 0
    /\ pendingMask = <<>>
    /\ imageCanvas = [w |-> 0, h |-> 0, drawn |-> FALSE]
    /\ drawingCanvas = NoCanvas
    /\ isDrawing = FALSE
    /\ lastPos = NoPos
    /\ brushSize = DefaultBrushSize
    /\ isErasing = FALSE
    /\ edits = 0
    /\ lastWrite = Wrote("none")
    /\ emitted = <<>>
    /\ stroke = NoStroke

\* the editor opened without a prior mask (initialMask = null)
Init == Mounted(FALSE)

\* the editor opened on a previously saved mask
InitSeeded == Mounted(TRUE)

\* resizeCanvases, lines 302-307: a new image load is started; at most maxPending
\* loads are in flight
resizeCanvases(c, maxPending) ==
    /\ isOpen
    /\ edits < MaxEdits
    /\ pendingImg + Len(pendingMask) < maxPending
    /\ container' = c
    /\ pendingImg' = pendingImg + 1
    /\ edits' = edits + 1
    /\ emitted' = <<>>
    /\ UNCHANGED <<isOpen, props, pendingMask, imageCanvas, drawingCanvas, pointer,
                   brush, lastWrite, stroke>>
    /\ UNCHANGED outside

\* window 'resize' (line 362), once the loads of the previous one are done
Resize(c) == resizeCanvases(c, MaxPending)

\* window 'resize' (line 362), also while earlier loads are pending
ResizeWhilePending(c) == resizeCanvases(c, MaxLoads)

\* an img.onload that sizes the overlay canvas only
ImgOnloadOverlayOnly ==
    /\ pendingImg > 0
    /\ pendingImg' = pendingImg - 1
    /\ IF isOpen
       THEN LET g == FitInside(imageUrl, container)
            IN  /\ imageCanvas' = [imageCanvas EXCEPT !.drawn = TRUE]
                /\ drawingCanvas' = [w |-> g.w, h |-> g.h, px |-> BlankPixels(g.w, g.h)]
                /\ pendingMask' = IF initialMask # NoMask
                                  THEN Append(pendingMask, g)
                                  ELSE pendingMask
                /\ lastWrite' = Wrote("imgOnload")
       ELSE UNCHANGED <<imageCanvas, drawingCanvas, pendingMask, lastWrite>>
    /\ stroke' = NoStroke
    /\ emitted' = <<>>
    /\ UNCHANGED <<isOpen, props, container, pointer, brush, edits>>
    /\ UNCHANGED outside

\* img.onload, lines 308-356
ImgOnload ==
    /\ pendingImg > 0
    /\ pendingImg' = pendingImg - 1
    /\ IF isOpen
       THEN LET g == FitInside(imageUrl, container)
            IN  /\ imageCanvas' = [w |-> g.w, h |-> g.h, drawn |-> TRUE]
                /\ drawingCanvas' = [w |-> g.w, h |-> g.h, px |-> BlankPixels(g.w, g.h)]
                /\ pendingMask' = IF initialMask # NoMask
                                  THEN Append(pendingMask, g)
                                  ELSE pendingMask
                /\ lastWrite' = Wrote("imgOnload")
       ELSE UNCHANGED <<imageCanvas, drawingCanvas, pendingMask, lastWrite>>
    /\ stroke' = NoStroke
    /\ emitted' = <<>>
    /\ UNCHANGED <<isOpen, props, container, pointer, brush, edits>>
    /\ UNCHANGED outside

\* maskImg.onload, lines 339-354
MaskOnload(i) ==
    /\ i \in 1 .. Len(pendingMask)
    /\ pendingMask' = [k \in 1 .. (Len(pendingMask) - 1) |->
                          IF k < i THEN pendingMask[k] ELSE pendingMask[k + 1]]
    /\ IF isOpen
       THEN /\ drawingCanvas' =
                   [drawingCanvas EXCEPT
                       !.px = seedPixels(@, initialMask, pendingMask[i])]
            /\ lastWrite' = Wrote("maskOnload")
       ELSE UNCHANGED <<drawingCanvas, lastWrite>>
    /\ stroke' = NoStroke
    /\ emitted' = <<>>
    /\ UNCHANGED <<isOpen, props, container, pendingImg, imageCanvas, pointer, brush,
                   edits>>
    /\ UNCHANGED outside

\* startDrawing, lines 395-401
StartDrawing(p) ==
    /\ isOpen
    /\ OverCanvas(p)
    /\ edits < MaxEdits
    /\ isDrawing' = TRUE
    /\ lastPos' = p
    /\ LET cov == CoverageMap(drawingCanvas.px, p, p, brushSize)
       IN  \E dot \in BOOLEAN :
           \E edge \in (IF dot THEN EdgeAlphas ELSE {0}) :
               drawingCanvas' =
                   [drawingCanvas EXCEPT
                       !.px = drawLine(@, cov, TRUE, isErasing, edge, dot)]
    /\ edits' = edits + 1
    /\ stroke' = IF ~isErasing /\ IsBlank(drawingCanvas.px)
                 THEN [pts |-> <<p>>, d |-> brushSize]
                 ELSE NoStroke
    /\ lastWrite' = Stroked("startDrawing", isErasing, p)
    /\ emitted' = <<>>
    /\ UNCHANGED <<isOpen, props, container, loads, imageCanvas, brush>>
    /\ UNCHANGED outside

\* a draw without the test of isDrawing.current (line 404)
DrawUnguarded(p) ==
    /\ isOpen
    /\ OverCanvas(p)
    /\ edits < MaxEdits
    /\ edits' = edits + 1
    /\ IF lastPos # NoPos
       THEN /\ LET cov == CoverageMap(drawingCanvas.px, lastPos, p, brushSize)
               IN  \E dot \in (IF p = lastPos THEN BOOLEAN ELSE {FALSE}) :
                   \E edge \in (IF p = lastPos /\ ~dot THEN {0} ELSE EdgeAlphas) :
                       drawingCanvas' =
                           [drawingCanvas EXCEPT
                               !.px = drawLine(@, cov, p = lastPos, isErasing,
                                               edge, dot)]
            /\ lastWrite' = Stroked("draw", isErasing, p)
       ELSE UNCHANGED <<drawingCanvas, lastWrite>>
    /\ lastPos' = p
    /\ stroke' = NoStroke
    /\ emitted' = <<>>
    /\ UNCHANGED <<isOpen, props, container, loads, imageCanvas, isDrawing, brush>>
    /\ UNCHANGED outside

\* draw, lines 403-410
Draw(p) ==
    /\ isOpen
    /\ OverCanvas(p)
    /\ IF ~isDrawing
       THEN UNCHANGED <<drawingCanvas, lastPos, edits, stroke, lastWrite>>
       ELSE /\ edits < MaxEdits
            /\ edits' = edits + 1
            /\ IF lastPos # NoPos
               THEN /\ LET cov == CoverageMap(drawingCanvas.px, lastPos, p, brushSize)
                       IN  \E dot \in (IF p = lastPos THEN BOOLEAN ELSE {FALSE}) :
                           \E edge \in (IF p = lastPos /\ ~dot THEN {0} ELSE EdgeAlphas) :
                               drawingCanvas' =
                                   [drawingCanvas EXCEPT
                                       !.px = drawLine(@, cov, p = lastPos, isErasing,
                                                       edge, dot)]
                    /\ lastWrite' = Stroked("draw", isErasing, p)
               ELSE UNCHANGED <<drawingCanvas, lastWrite>>
            /\ lastPos' = p
            /\ stroke' = IF stroke # NoStroke /\ ~isErasing /\ lastPos # NoPos
                            /\ brushSize = stroke.d
                         THEN [stroke EXCEPT !.pts = Append(@, p)]
                         ELSE NoStroke
    /\ emitted' = <<>>
    /\ UNCHANGED <<isOpen, props, container, loads, imageCanvas, isDrawing, brush>>
    /\ UNCHANGED outside

\* a stopDrawing that keeps the last point
StopDrawingKeepsLastPos ==
    /\ isOpen
    /\ isDrawing' = FALSE
    /\ emitted' = <<>>
    /\ UNCHANGED <<isOpen, props, container, loads, imageCanvas, drawingCanvas, brush,
                   edits, lastWrite, stroke, lastPos>>
    /\ UNCHANGED outside

\* stopDrawing, lines 412-415 (onMouseUp / onMouseLeave, line 527)
StopDrawing ==
    /\ isOpen
    /\ isDrawing' = FALSE
    /\ lastPos' = NoPos
    /\ emitted' = <<>>
    /\ UNCHANGED <<isOpen, props, container, loads, imageCanvas, drawingCanvas, brush,
                   edits, lastWrite, stroke>>
    /\ UNCHANGED outside

\* a clearMask that also switches back to the brush
ClearMaskResetsMode ==
    /\ isOpen
    /\ drawingCanvas' = [drawingCanvas EXCEPT !.px = clearMaskPixels(drawingCanvas)]
    /\ stroke' = NoStroke
    /\ lastWrite' = Wrote("clearMask")
    /\ emitted' = <<>>
    /\ isErasing' = FALSE
    /\ UNCHANGED <<isOpen, props, container, loads, imageCanvas, pointer, brushSize, edits>>
    /\ UNCHANGED outside

\* clearMask, lines 417-423
ClearMask ==
    /\ isOpen
    /\ drawingCanvas' = [drawingCanvas EXCEPT !.px = clearMaskPixels(drawingCanvas)]
    /\ stroke' = NoStroke
    /\ lastWrite' = Wrote("clearMask")
    /\ emitted' = <<>>
    /\ UNCHANGED <<isOpen, props, container, loads, imageCanvas, pointer, brush, edits>>
    /\ UNCHANGED outside

\* invertMask, lines 425-450
InvertMask ==
    /\ isOpen
    /\ edits < MaxEdits
    /\ edits' = edits + 1
    /\ drawingCanvas' = [drawingCanvas EXCEPT !.px = invertMaskPixels(drawingCanvas)]
    /\ stroke' = NoStroke
    /\ lastWrite' = Wrote("invertMask")
    /\ emitted' = <<>>
    /\ UNCHANGED <<isOpen, props, container, loads, imageCanvas, pointer, brush>>
    /\ UNCHANGED outside

\* a handleSave that puts the silhouette back onto the drawing canvas
HandleSaveInPlace ==
    /\ isOpen
    /\ LET mask == ExportMask(drawingCanvas, imageUrl)
       IN  emitted' = <<[file |-> SavedFile(mask), base64 |-> mask]>>
    /\ drawingCanvas' =
           [drawingCanvas EXCEPT
               !.px = [p \in DOMAIN @ |-> Silhouette(GetImageData(@))[p][4]]]
    /\ UNCHANGED <<isOpen, props, container, loads, imageCanvas,
                   pointer, brush, edits, lastWrite, stroke>>
    /\ UNCHANGED outside

\* handleSave, lines 452-521
HandleSave ==
    /\ isOpen
    /\ LET mask == ExportMask(drawingCanvas, imageUrl)
       IN  emitted' = <<[file |-> SavedFile(mask), base64 |-> mask]>>
    /\ UNCHANGED <<isOpen, props, container, loads, imageCanvas, drawingCanvas,
                   pointer, brush, edits, lastWrite, stroke>>
    /\ UNCHANGED outside

\* the brush-size slider, line 541 (onChange fires for a new value)
SetBrushSize(d) ==
    /\ isOpen
    /\ edits < MaxEdits
    /\ d # brushSize
    /\ brushSize' = d
    /\ edits' = edits + 1
    /\ emitted' = <<>>
    /\ UNCHANGED <<isOpen, props, container, loads, imageCanvas, drawingCanvas,
                   pointer, isErasing, lastWrite, stroke>>
    /\ UNCHANGED outside

\* the brush / eraser buttons, lines 547-548 (setting the value it has changes nothing)
SetIsErasing(b) ==
    /\ isOpen
    /\ edits < MaxEdits
    /\ b # isErasing
    /\ isErasing' = b
    /\ edits' = edits + 1
    /\ emitted' = <<>>
    /\ UNCHANGED <<isOpen, props, container, loads, imageCanvas, drawingCanvas,
                   pointer, brushSize, lastWrite, stroke>>
    /\ UNCHANGED outside

\* the close button, line 529: the parent sets isOpen = false, the component renders
\* null (line 524) and both canvas refs become null
Close ==
    /\ isOpen
    /\ isOpen' = FALSE
    /\ imageCanvas' = [w |-> 0, h |-> 0, drawn |-> FALSE]
    /\ drawingCanvas' = NoCanvas
    /\ stroke' = NoStroke
    /\ lastWrite' = Wrote("none")
    /\ emitted' = <<>>
    /\ UNCHANGED <<props, container, loads, pointer, brush, edits>>
    /\ UNCHANGED outside

Next ==
    \/ \E c \in ContainerSizes : Resize(c)
    \/ ImgOnload
    \/ \E p \in Points : StartDrawing(p)
    \/ \E p \in Points : Draw(p)
    \/ StopDrawing
    \/ ClearMask
    \/ InvertMask
    \/ HandleSave
    \/ \E d \in BrushSizes : SetBrushSize(d)
    \/ \E b \in BOOLEAN : SetIsErasing(b)
    \/ Close

Spec == Init /\ [][Next]_vars

\* with a prior mask, img.onload starts mask loads too
NextSeeded ==
    \/ Next
    \/ \E i \in 1 .. MaxPending : MaskOnload(i)

SpecSeeded == InitSeeded /\ [][NextSeeded]_vars

----------------------------------------------------------------------------
(* Vocabulary of the properties *)

Overlay == drawingCanvas.px

\* what handleSave would emit in the current state
Exported == ExportMask(drawingCanvas, imageUrl)

\* a step of startDrawing or of draw that calls drawLine
DrawLineStep ==
    /\ edits' = edits + 1
    /\ lastWrite'.op \in {"startDrawing", "draw"}
    /\ UNCHANGED <<brush, loads>>

\* the coverage of pixel p by the path of that drawLine call
StepCoverage(p) ==
    LET b == lastWrite'.at
        a == IF lastWrite'.op = "startDrawing" THEN b ELSE lastPos
    IN  CoverageTable[a, b, brushSize][p]

\* a step of invertMask
InvertStep ==
    /\ edits' = edits + 1
    /\ lastWrite'.op = "invertMask"
    /\ UNCHANGED <<brush, loads>>

Inverted(canvas) == [canvas EXCEPT !.px = invertMaskPixels(canvas)]

\* the paths drawLine was called with during a stroke through pts
PathSegments(pts) ==
    {<<pts[1], pts[1]>>} \cup {<<pts[i], pts[i + 1]>> : i \in 1 .. (Len(pts) - 1)}

----------------------------------------------------------------------------
(* C1: every mask handed to onSave is the strict binarisation of the overlay:
   a pixel is opaque white if the overlay's alpha there is non-zero, whatever
   its magnitude, and opaque black otherwise. *)
C1_StrictBinarization ==
    \A i \in 1 .. Len(emitted) :
        LET px == emitted[i].base64.px
        IN  /\ DOMAIN px = DOMAIN Overlay
            /\ \A p \in DOMAIN px : px[p] = IF Overlay[p] > 0 THEN White ELSE Black

\* a mask was saved from an overlay holding alpha 0, alpha 1 and a full stroke's alpha
C1_Witness ==
    /\ emitted # <<>>
    /\ \E p \in DOMAIN Overlay : Overlay[p] = 1
    /\ \E p \in DOMAIN Overlay : Overlay[p] = 0
    /\ \E p \in DOMAIN Overlay : Overlay[p] >= GlobalAlpha

(* C2: invertMask flips the selection of every pixel: a pixel with alpha > 0
   before has alpha 0 after, and a pixel with alpha 0 before has alpha > 0 after. *)
C2_InvertFlipsSelection ==
    [][InvertStep =>
          \A p \in DOMAIN Overlay :
              /\ Overlay[p] > 0 => drawingCanvas'.px[p] = 0
              /\ Overlay[p] = 0 => drawingCanvas'.px[p] > 0]_vars

(* C3: inverting twice restores the exported mask, for every overlay the editor
   can reach. *)
C3_InvertInvolution ==
    (isOpen /\ imageCanvas.drawn) =>
        ExportMask(Inverted(Inverted(drawingCanvas)), imageUrl).px = Exported.px

(* C4: an editor opened on a previously exported mask, at the same geometry and
   with no edit made, has alpha > 0 exactly at the mask's white pixels, and
   exports that mask. *)
C4_SeedRoundTrip ==
    (/\ isOpen
     /\ initialMask # NoMask
     /\ lastWrite.op = "maskOnload"
     /\ edits = 0
     /\ pendingImg = 0
     /\ pendingMask = <<>>)
    => /\ \A p \in DOMAIN Overlay : (Overlay[p] > 0) <=> (initialMask.px[p] = White)
       /\ Exported.px = initialMask.px

(* C5: after one segment drawn in erase mode, every pixel wholly under the
   segment's brush footprint has alpha 0. *)
C5_EraseRemovesSelection ==
    [][(DrawLineStep /\ isErasing /\ lastWrite'.op = "draw" /\ lastPos # lastWrite'.at) =>
          \A p \in DOMAIN Overlay :
              StepCoverage(p) = "full" => drawingCanvas'.px[p] = 0]_vars

(* C6: a save that follows clearMask, with no write to the overlay in between,
   emits an all-black mask of the overlay canvas's width and height, whatever
   the overlay held and whatever the brush mode and stroke state are. *)
C6_ClearThenExportBlack ==
    (emitted # <<>> /\ lastWrite.op = "clearMask") =>
        LET m == emitted[1].base64
        IN  /\ m.w = drawingCanvas.w
            /\ m.h = drawingCanvas.h
            /\ DOMAIN m.px = Pixels(drawingCanvas.w, drawingCanvas.h)
            /\ \A p \in DOMAIN m.px : m.px[p] = Black

\* a save after a clear made during an active stroke in erase mode, on sized canvases
C6_Witness ==
    /\ emitted # <<>>
    /\ lastWrite.op = "clearMask"
    /\ isDrawing
    /\ isErasing
    /\ imageCanvas.drawn
    /\ edits > 1

(* C7: a drawLine call in erase mode (the start dot or a segment) changes no
   pixel whose alpha is 0 and no pixel outside its footprint; so erasing where
   nothing is painted leaves the overlay as it was. *)
C7_EraseLeavesUnselected ==
    [][(DrawLineStep /\ isErasing) =>
          /\ DOMAIN drawingCanvas'.px = DOMAIN Overlay
          /\ \A p \in DOMAIN Overlay :
                 (Overlay[p] = 0 \/ StepCoverage(p) = "none")
                     => drawingCanvas'.px[p] = Overlay[p]]_vars

\* an erase segment has just run, on sized canvases, with an unselected pixel
\* wholly under the brush
C7_Witness ==
    /\ isOpen
    /\ imageCanvas.drawn
    /\ lastWrite.op = "draw"
    /\ lastWrite.erasing
    /\ isErasing
    /\ \E p \in DOMAIN Overlay :
           Overlay[p] = 0 /\ CoverageTable[lastWrite.at, lastWrite.at, brushSize][p] = "full"

(* C8: after a paint stroke of constant diameter d begun on a transparent
   overlay, the export is white at every pixel wholly within d/2 of the
   stroke's polyline and black at every pixel wholly farther away. *)
C8_StrokeFootprint ==
    (isOpen /\ stroke # NoStroke) =>
        \A p \in DOMAIN Overlay :
            LET covs == {CoverageTable[s[1], s[2], stroke.d][p] :
                            s \in PathSegments(stroke.pts)}
            IN  /\ "full" \in covs => Exported.px[p] = White
                /\ covs = {"none"} => Exported.px[p] = Black

(* C9: a click without drag in paint mode (startDrawing, then stopDrawing)
   leaves the pixel at the click selected: it exports white. *)
C9_ClickPaintsDot ==
    (/\ isOpen
     /\ lastWrite.op = "startDrawing"
     /\ ~lastWrite.erasing
     /\ ~isDrawing)
    => Exported.px[lastWrite.at] = White

(* C10: every mask handed to onSave has the width and height of a display
   geometry, that is of the source image fitted into the container. *)
C10_MaskHasDisplayGeometry ==
    \A i \in 1 .. Len(emitted) :
        \E c \in ContainerSizes :
            LET g == FitInside(imageUrl, c)
            IN  emitted[i].base64.w = g.w /\ emitted[i].base64.h = g.h

(* C11: while the editor is open and the image load that sizes the canvases has
   not completed, stroke, clear, invert and save are no-ops: the overlay stays
   untouched and nothing is handed to onSave. *)
C11_UnreadyNoOp ==
    (isOpen /\ ~imageCanvas.drawn) =>
        /\ emitted = <<>>
        /\ IsBlank(Overlay)

(* C12: a startDrawing or draw that arrives while the image load or the
   prior-mask load is still pending does not change the overlay. *)
C12_NoStrokeWhileLoading ==
    [][(DrawLineStep /\ (pendingImg > 0 \/ pendingMask # <<>>)) =>
          drawingCanvas' = drawingCanvas]_vars

----------------------------------------------------------------------------
(* The canvas surface manager alone: resizeCanvases invoked any number of times,
   with loads completing in any order, and no other handler running *)

NextLoads ==
    \/ \E c \in ContainerSizes : ResizeWhilePending(c)
    \/ ImgOnload
    \/ \E i \in 1 .. MaxLoads : MaskOnload(i)

InitLoads == Init \/ InitSeeded

SpecLoads == InitLoads /\ [][NextLoads]_vars

\* the canvases one invocation of resizeCanvases produces once its loads are done
SingleInvocation ==
    LET g == FitInside(imageUrl, container)
    IN  [image   |-> [w |-> g.w, h |-> g.h, drawn |-> TRUE],
         overlay |-> [w |-> g.w, h |-> g.h,
                      px |-> IF initialMask = NoMask
                             THEN BlankPixels(g.w, g.h)
                             ELSE seedPixels(BlankPixels(g.w, g.h), initialMask, g)]]

(* C13: however many times resizeCanvases was invoked, also while earlier loads
   were pending, once no load is pending both canvases are those a single
   invocation produces: same size, same alpha at every pixel. *)
C13_ResizeIdempotent ==
    (isOpen /\ pendingImg = 0 /\ pendingMask = <<>>) =>
        /\ imageCanvas = SingleInvocation.image
        /\ drawingCanvas = SingleInvocation.overlay

----------------------------------------------------------------------------
(* The display geometry alone: the editor mounted on an image of any size in a
   container of any size, and the image load that sizes the canvases *)

Dims == (1 .. MaxDim) \X (1 .. MaxDim)

InitFit ==
    /\ isOpen = TRUE
    /\ imageUrl \in Dims
    /\ initialMask = NoMask
    /\ container \in Dims
    /\ pendingImg = 1
    /\ pendingMask = <<>>
    /\ imageCanvas = [w |-> DefaultCanvasWidth, h |-> DefaultCanvasHeight, drawn |-> FALSE]
    /\ drawingCanvas = DefaultCanvas
    /\ isDrawing = FALSE
    /\ lastPos = NoPos
    /\ brushSize = DefaultBrushSize
    /\ isErasing = FALSE
    /\ edits = 0
    /\ lastWrite = Wrote("none")
    /\ emitted = <<>>
    /\ stroke = NoStroke
    /\ OutsideIdle

NextFit == ImgOnload

SpecFit == InitFit /\ [][NextFit]_vars

(* C14: the geometry img.onload gives the canvases fits inside the container,
   touches it in one dimension, and keeps the image's aspect ratio up to the
   truncation of the other dimension to whole pixels. *)
C14_FitInside ==
    (isOpen /\ imageCanvas.drawn) =>
        LET w  == drawingCanvas.w
            h  == drawingCanvas.h
            iw == imageUrl[1]
            ih == imageUrl[2]
            cw == container[1]
            ch == container[2]
        IN  /\ w <= cw
            /\ h <= ch
            /\ \/ w = cw /\ h * iw <= cw * ih /\ cw * ih < (h + 1) * iw
               \/ h = ch /\ w * ih <= ch * iw /\ ch * iw < (w + 1) * ih

\* an image relatively wider than its container: full width, height truncated
C14_Witness ==
    /\ imageCanvas.drawn
    /\ drawingCanvas.w = container[1]
    /\ drawingCanvas.h < container[2]
    /\ drawingCanvas.h > 0
    /\ drawingCanvas.h * imageUrl[1] < container[1] * imageUrl[2]

----------------------------------------------------------------------------
(* C15: in every state of the open editor (before the first image load, after
   resizes, during and after strokes, clear, invert and save) the background
   canvas and the overlay canvas have the same width and the same height. *)
C15_CanvasesSameSize ==
    isOpen =>
        /\ imageCanvas.w = drawingCanvas.w
        /\ imageCanvas.h = drawingCanvas.h

\* mid-stroke on canvases re-sized for a container other than the first one
C15_Witness ==
    /\ isOpen
    /\ isDrawing
    /\ imageCanvas.drawn
    /\ container # InitialContainer
    /\ drawingCanvas.w = FitInside(imageUrl, container).w
    /\ drawingCanvas.w # FitInside(imageUrl, InitialContainer).w
    /\ ~IsBlank(Overlay)

(* C16: onSave is called only by handleSave and once per save: a step that
   hands anything to onSave hands exactly one object, changes nothing of the
   editor, and the object's file is named mask.png, is of type image/png and
   decodes to the raster of the accompanying data URL, the export of the overlay. *)
C16_OnSaveOncePerSave ==
    [][/\ Len(emitted') <= 1
       /\ emitted' # <<>> =>
             /\ UNCHANGED <<isOpen, props, container, loads, imageCanvas, drawingCanvas,
                            pointer, brush, edits, lastWrite, stroke>>
             /\ emitted'[1].file.name = "mask.png"
             /\ emitted'[1].file.type = "image/png"
             /\ emitted'[1].file.mask = emitted'[1].base64
             /\ emitted'[1].base64 = Exported]_vars

\* a mask with both white and black pixels has been handed to onSave
C16_Witness ==
    /\ Len(emitted) = 1
    /\ imageCanvas.drawn
    /\ \E p \in DOMAIN emitted[1].file.mask.px : emitted[1].file.mask.px[p] = White
    /\ \E p \in DOMAIN emitted[1].file.mask.px : emitted[1].file.mask.px[p] = Black

(* C17: the brush starts at diameter 40 in paint mode, its diameter stays within
   [5, 150], and a step that changes the diameter or the mode changes nothing
   else of the editor: only the slider and the brush / eraser buttons change
   them, never a stroke, clear, invert, save, close or resize. *)
C17_BrushState ==
    /\ brushSize = DefaultBrushSize /\ ~isErasing
    /\ [][/\ brushSize' \in MinBrushSize .. MaxBrushSize
          /\ brush' # brush =>
                /\ brushSize' = brushSize \/ isErasing' = isErasing
                /\ UNCHANGED <<isOpen, props, container, loads, imageCanvas,
                               drawingCanvas, pointer, lastWrite, stroke>>]_vars

\* both the diameter and the mode were changed, and a stroke was begun with them
C17_Witness ==
    /\ brushSize = MinBrushSize
    /\ isErasing
    /\ lastWrite.op = "startDrawing"
    /\ lastWrite.erasing
    /\ isDrawing

(* C18: every dot or segment is drawn with the brush diameter and the mode that
   are set at the moment it is drawn, also when they were changed in the middle
   of a stroke; and a change of diameter or mode leaves what was drawn before
   as it was. *)
C18_BrushReadPerSegment ==
    [][/\ DrawLineStep =>
             LET op  == IF isErasing THEN "destination-out" ELSE "source-over"
                 b   == lastWrite'.at
                 a   == IF lastWrite'.op = "startDrawing" THEN b ELSE lastPos
                 cov == CoverageTable[a, b, brushSize]
                 old == drawingCanvas.px
                 new == drawingCanvas'.px
             IN  \/ a = b /\ new = old
                 \/ \A p \in DOMAIN old :
                        \/ cov[p] = "full"
                              /\ new[p] = Composite(op, old[p], WithGlobalAlpha(255))
                        \/ cov[p] = "none" /\ new[p] = old[p]
                        \/ cov[p] = "edge"
                              /\ \E edge \in EdgeAlphas : new[p] = Composite(op, old[p], edge)
       /\ brush' # brush => drawingCanvas' = drawingCanvas]_vars

\* a stroke begun in paint mode whose latest segment was drawn in erase mode, over
\* what the stroke had painted
C18_Witness ==
    /\ initialMask = NoMask
    /\ edits = 3
    /\ isDrawing
    /\ lastWrite.op = "draw"
    /\ lastWrite.erasing
    /\ \E p \in DOMAIN Overlay : Overlay[p] = 64

(* C19: stopDrawing only drops the path-continuity state (no stroke active, no
   last point) and leaves the overlay as it is; and the next startDrawing at q
   draws at q only: no pixel outside the brush footprint of q changes, so no
   segment joins the previous stroke to the new one. *)
C19_EndStrokeDropsContinuity ==
    [][/\ (isDrawing /\ ~isDrawing') =>
             /\ lastPos' = NoPos
             /\ drawingCanvas' = drawingCanvas
       /\ (DrawLineStep /\ lastWrite'.op = "startDrawing") =>
             /\ lastPos' = lastWrite'.at
             /\ \A p \in DOMAIN Overlay :
                    CoverageTable[lastPos', lastPos', brushSize][p] = "none"
                        => drawingCanvas'.px[p] = Overlay[p]]_vars

\* a stroke that painted a segment on the sized overlay has been ended
C19_Witness ==
    /\ isOpen
    /\ imageCanvas.drawn
    /\ ~isDrawing
    /\ lastPos = NoPos
    /\ lastWrite.op = "draw"
    /\ ~lastWrite.erasing
    /\ ~IsBlank(Overlay)

(* C20: while a paint stroke drawn on a transparent overlay is all the overlay
   holds, no pixel's alpha exceeds the alpha a single stroke lays down,
   however the stroke's dot and segments overlap. *)
C20_AlphaCapped ==
    (isOpen /\ imageCanvas.drawn /\ stroke # NoStroke) =>
        \A p \in DOMAIN Overlay : Overlay[p] <= WithGlobalAlpha(255)

----------------------------------------------------------------------------
(* C21: once a resize of the container has completed (no image or mask load is
   pending and the last writer of the overlay is one of the load handlers),
   the overlay is exactly what a single resizeCanvases call leaves: the seed
   of initialMask, or transparency when there is none; no stroke, clear or
   invert made since the editor opened is left in it. *)
C21_ResizeDiscardsEdits ==
    (/\ isOpen
     /\ container # InitialContainer
     /\ pendingImg = 0
     /\ pendingMask = <<>>
     /\ lastWrite.op \in {"imgOnload", "maskOnload"})
        => drawingCanvas = SingleInvocation.overlay

----------------------------------------------------------------------------
(* The overlay under its writers only: the loads, the pointer handlers, the
   brush controls and the clear / invert buttons.  handleSave and the close
   button, which write nothing to the overlay, are left out. *)
NextOverlay ==
    \/ \E c \in ContainerSizes : Resize(c)
    \/ ImgOnload
    \/ \E p \in Points : StartDrawing(p)
    \/ \E p \in Points : Draw(p)
    \/ StopDrawing
    \/ ClearMask
    \/ InvertMask
    \/ \E d \in BrushSizes : SetBrushSize(d)
    \/ \E b \in BOOLEAN : SetIsErasing(b)

SpecOverlay == Init /\ [][NextOverlay]_vars

(* C23: a drawLine call in paint mode (the start dot or a segment) leaves
   every selected pixel selected, and drawing the same path once more, as the
   engine rasterised it, does not change the mask handleSave would emit. *)
C23_PaintOnlyAdds ==
    [][(DrawLineStep /\ ~isErasing) =>
          LET b == lastWrite'.at
              a == IF lastWrite'.op = "startDrawing" THEN b ELSE lastPos
              cov == CoverageTable[a, b, brushSize]
              new == drawingCanvas'
              mask == ExportMask(new, imageUrl)
              \* what the engine may have done: <<edge alpha, dot painted>>
              rasterised == IF a = b
                            THEN {<<0, FALSE>>} \cup (EdgeAlphas \X {TRUE})
                            ELSE EdgeAlphas \X {FALSE}
          IN  /\ \A p \in DOMAIN Overlay : Overlay[p] > 0 => new.px[p] > 0
              /\ \A r \in rasterised :
                     new.px = drawLine(Overlay, cov, a = b, FALSE, r[1], r[2]) =>
                         ExportMask([new EXCEPT
                                        !.px = drawLine(@, cov, a = b, FALSE, r[1], r[2])],
                                    imageUrl) = mask]_vars

\* a paint segment has just run on sized canvases over pixels painted before
C23_Witness ==
    /\ isOpen
    /\ imageCanvas.drawn
    /\ lastWrite.op = "draw"
    /\ ~lastWrite.erasing
    /\ ~isErasing
    /\ \E p \in DOMAIN Overlay : Overlay[p] > WithGlobalAlpha(255)

----------------------------------------------------------------------------
(* C24: a save reads the editor and writes nothing of it: the step that hands
   a mask to onSave leaves the overlay's pixels, the geometry of both
   canvases, the brush, the pointer state and the stroke as they were, and so
   leaves unchanged what the next save would emit; a save that directly
   follows a save emits an equal mask. *)
C24_SaveReadOnly ==
    [][emitted' # <<>> =>
          /\ drawingCanvas'.px = Overlay
          /\ <<drawingCanvas'.w, drawingCanvas'.h>> = <<drawingCanvas.w, drawingCanvas.h>>
          /\ <<imageCanvas'.w, imageCanvas'.h>> = <<imageCanvas.w, imageCanvas.h>>
          /\ UNCHANGED <<brush, pointer, stroke>>
          /\ Exported' = Exported
          /\ emitted # <<>> => emitted'[1] = emitted[1]]_vars

\* a save made in the middle of an erase stroke, on an overlay with selected
\* and unselected pixels
C24_Witness ==
    /\ Len(emitted) = 1
    /\ imageCanvas.drawn
    /\ isDrawing
    /\ isErasing
    /\ \E p \in DOMAIN Overlay : Overlay[p] > 0
    /\ \E p \in DOMAIN Overlay : Overlay[p] = 0

----------------------------------------------------------------------------
(* C25: a stroke is active exactly when a last point is recorded (isDrawing is
   true iff lastPos is not null), and while no stroke is active, before the
   first mouse down or after a mouse up or mouse leave, no step of draw writes
   the overlay: a step out of such a state that changes the overlay is the
   step of another handler. *)
C25_MoveIgnoredWhenIdle ==
    /\ [](isDrawing <=> lastPos # NoPos)
    /\ [][(~isDrawing /\ drawingCanvas' # drawingCanvas) =>
              lastWrite'.op # "draw"]_vars

\* a stroke of a single dot has been ended on a sized canvas, and the pointer can
\* still move over what it painted
C25_Witness ==
    /\ isOpen
    /\ imageCanvas.drawn
    /\ ~isDrawing
    /\ lastPos = NoPos
    /\ lastWrite.op = "startDrawing"
    /\ ~IsBlank(Overlay)
    /\ \E p \in Points : OverCanvas(p)

----------------------------------------------------------------------------
(* generateOrEditImage, src/services/geminiService.ts lines 50-98: the parts of
   the request *)

MaxRefs == 2

\* a null image argument
Null == <<>>

ImageData == {[base64Data |-> "AAAA", mimeType |-> "image/png"],
              [base64Data |-> "BBBB", mimeType |-> "image/jpeg"]}

MaskData == [base64Data |-> "MMMM", mimeType |-> "image/png"]

Prompts == {"a cat", "a dog"}

RECURSIVE SeqsUpTo(_, _)
SeqsUpTo(S, n) ==
    IF n = 0
    THEN {<<>>}
    ELSE LET shorter == SeqsUpTo(S, n - 1)
         IN  shorter \cup {Append(q, x) : q \in shorter, x \in S}

\* a Part holding inline data (lines 60-65, 71-76, 80-85)
InlinePart(image) ==
    [inlineData |-> [data |-> image.base64Data, mimeType |-> image.mimeType]]

\* the text Part (line 88)
TextPart(prompt) == [text |-> prompt]

\* referenceImages.forEach(ref => parts.push(...)), lines 79-86
RECURSIVE PushEach(_, _)
PushEach(acc, refs) ==
    IF refs = <<>>
    THEN acc
    ELSE PushEach(Append(acc, InlinePart(Head(refs))), Tail(refs))

\* a request that sends the mask whether or not there is a base image
BuildPartsMaskAlways(prompt, baseImage, refImagesData, maskImage) ==
    LET p0 == <<>>
        p1 == IF baseImage # Null THEN Append(p0, InlinePart(baseImage)) ELSE p0
        p2 == IF maskImage # Null THEN Append(p1, InlinePart(maskImage)) ELSE p1
        p3 == PushEach(p2, refImagesData)
    IN  Append(p3, TextPart(prompt))

\* lines 57-88
BuildParts(prompt, baseImage, refImagesData, maskImage) ==
    LET p0 == <<>>
        p1 == IF baseImage # Null THEN Append(p0, InlinePart(baseImage)) ELSE p0
        p2 == IF maskImage # Null /\ baseImage # Null
              THEN Append(p1, InlinePart(maskImage))
              ELSE p1
        p3 == PushEach(p2, refImagesData)
    IN  Append(p3, TextPart(prompt))

\* a caller invokes generateOrEditImage with some arguments
InitParts ==
    /\ EditorClosed
    /\ call \in [prompt : Prompts,
                 baseImage : ImageData \cup {Null},
                 referenceImages : SeqsUpTo(ImageData, MaxRefs),
                 maskImage : {MaskData, Null}]
    /\ parts = <<>>
    /\ StudioIdle
    /\ VideoIdle

\* generateOrEditImage up to the request of line 90
generateOrEditImage ==
    /\ call # NoCall
    /\ parts = <<>>
    /\ parts' = BuildParts(call.prompt, call.baseImage, call.referenceImages,
                           call.maskImage)
    /\ UNCHANGED <<editor, call, studio, video>>

NextParts == generateOrEditImage

SpecParts == InitParts /\ [][NextParts]_vars

(* C22: the parts of the request are, in this order: the base image if given;
   the mask, only when a base image is given too; the reference images in
   their given order; the prompt text, last. *)
C22_PartsOrder ==
    parts # <<>> =>
        LET nBase == IF call.baseImage # Null THEN 1 ELSE 0
            nMask == IF call.baseImage # Null /\ call.maskImage # Null THEN 1 ELSE 0
            nRefs == Len(call.referenceImages)
        IN  /\ Len(parts) = nBase + nMask + nRefs + 1
            /\ nBase = 1 => parts[1] = InlinePart(call.baseImage)
            /\ nMask = 1 => parts[2] = InlinePart(call.maskImage)
            /\ \A i \in 1 .. nRefs :
                   parts[nBase + nMask + i] = InlinePart(call.referenceImages[i])
            /\ parts[Len(parts)] = TextPart(call.prompt)

\* a request was built from a mask without a base image, and from two references
C22_Witness ==
    /\ parts # <<>>
    /\ call.baseImage = Null
    /\ call.maskImage # Null
    /\ Len(call.referenceImages) = 2
    /\ call.referenceImages[1] # call.referenceImages[2]

----------------------------------------------------------------------------
(* The reference images of ImageStudio, src/components/ImageStudio.tsx lines
   55-126: the file picker, drag and drop, the file reads in flight, removal
   and reordering *)

MaxUploads == 3
MaxReading == 2
MaxBatch == 2

MAX_REFERENCE_IMAGES == 3

ImageTypes == {"image/png", "image/jpeg"}

Files == {[name |-> "a.png", type |-> "image/png"],
          [name |-> "b.jpg", type |-> "image/jpeg"],
          [name |-> "notes.txt", type |-> "text/plain"]}

\* a FileList of the picker or of a drop
FileLists == SeqsUpTo(Files, MaxBatch) \ {<<>>}

\* file.type.startsWith('image/'), line 95
IsImageType(type) == type \in ImageTypes

\* fileToBase64, lines 46-53, and line 97
ImageFile(file) == [file |-> file, base64 |-> file.name]

\* the messages of t
ErrorMaxRefImages == "errorMaxRefImages"
ErrorInvalidImage == "errorInvalidImage"
ErrorReadFile == "errorReadFile"

RemoveAt(q, i) == [k \in 1 .. (Len(q) - 1) |-> IF k < i THEN q[k] ELSE q[k + 1]]

InsertAt(q, i, x) ==
    [k \in 1 .. (Len(q) + 1) |-> IF k < i THEN q[k] ELSE IF k = i THEN x ELSE q[k - 1]]

\* processAndSetReferenceFiles up to its await, lines 87-93
processAndSetReferenceFiles(files) ==
    /\ dragImage = NoIndex
    /\ uploads < MaxUploads
    /\ uploads' = uploads + 1
    /\ IF Len(referenceImages) + Len(files) > MAX_REFERENCE_IMAGES
       THEN /\ error' = ErrorMaxRefImages
            /\ UNCHANGED reading
       ELSE /\ Len(reading) < MaxReading
            /\ error' = NoError
            /\ reading' = Append(reading, files)
    /\ UNCHANGED <<referenceImages, dragImage, dragOverImage>>
    /\ UNCHANGED <<editor, request, video>>

\* handleReferenceImageUpload, lines 106-108; the input is disabled at the limit
\* (line 225)
HandleReferenceImageUpload(files) ==
    /\ Len(referenceImages) < MAX_REFERENCE_IMAGES
    /\ processAndSetReferenceFiles(files)

\* handleDrop, lines 110-114
HandleDrop(files) == processAndSetReferenceFiles(files)

\* the Promise.all of batch i settles, lines 93-103: every file was read, or one
\* was not an image
ReadsSettle(i) ==
    /\ i \in 1 .. Len(reading)
    /\ reading' = RemoveAt(reading, i)
    /\ IF \A k \in 1 .. Len(reading[i]) : IsImageType(reading[i][k].type)
       THEN /\ referenceImages' =
                   referenceImages \o [k \in 1 .. Len(reading[i]) |-> ImageFile(reading[i][k])]
            /\ UNCHANGED error
       ELSE /\ error' = ErrorInvalidImage
            /\ UNCHANGED referenceImages
    /\ UNCHANGED <<dragImage, dragOverImage, uploads>>
    /\ UNCHANGED <<editor, request, video>>

\* a FileReader of batch i fails (line 51): the catch of lines 100-103
ReadFails(i) ==
    /\ i \in 1 .. Len(reading)
    /\ \A k \in 1 .. Len(reading[i]) : IsImageType(reading[i][k].type)
    /\ reading' = RemoveAt(reading, i)
    /\ error' = ErrorReadFile
    /\ UNCHANGED <<referenceImages, dragImage, dragOverImage, uploads>>
    /\ UNCHANGED <<editor, request, video>>

\* the timer of lines 68-73
ErrorTimeout ==
    /\ error # NoError
    /\ error' = NoError
    /\ UNCHANGED <<referenceImages, reading, dragImage, dragOverImage, uploads>>
    /\ UNCHANGED <<editor, request, video>>

\* handleRemoveReferenceImage, line 116 (index is 0-based)
HandleRemoveReferenceImage(index) ==
    /\ index \in 0 .. (Len(referenceImages) - 1)
    /\ dragImage = NoIndex
    /\ referenceImages' = RemoveAt(referenceImages, index + 1)
    /\ UNCHANGED <<error, reading, dragImage, dragOverImage, uploads>>
    /\ UNCHANGED <<editor, request, video>>

\* onDragStart, line 208, of the image at index; the browser fires dragenter at
\* the dragged element as the drag begins, so onDragEnter runs for it too.  While
\* an image is dragged there is no click and no drop of files.
DragStart(index) ==
    /\ index \in 0 .. (Len(referenceImages) - 1)
    /\ dragImage = NoIndex
    /\ dragImage' = index
    /\ dragOverImage' = index
    /\ UNCHANGED <<referenceImages, error, reading, uploads>>
    /\ UNCHANGED <<editor, request, video>>

\* onDragEnter, line 208: an image or files are dragged over the image at index
DragEnter(index) ==
    /\ index \in 0 .. (Len(referenceImages) - 1)
    /\ dragOverImage # index
    /\ dragOverImage' = index
    /\ UNCHANGED <<referenceImages, error, reading, dragImage, uploads>>
    /\ UNCHANGED <<editor, request, video>>

\* handleSortReferenceImages, lines 118-126 (onDragEnd)
HandleSortReferenceImages ==
    /\ dragImage # NoIndex
    /\ IF dragOverImage = NoIndex
       THEN UNCHANGED <<referenceImages, dragImage, dragOverImage>>
       ELSE /\ LET draggedItem == referenceImages[dragImage + 1]
                   newImages == RemoveAt(referenceImages, dragImage + 1)
               IN  referenceImages' = InsertAt(newImages, dragOverImage + 1, draggedItem)
            /\ dragImage' = NoIndex
            /\ dragOverImage' = NoIndex
    /\ UNCHANGED <<error, reading, uploads>>
    /\ UNCHANGED <<editor, request, video>>

InitStudio == EditorClosed /\ OutsideIdle

NextStudio ==
    \/ \E files \in FileLists : HandleReferenceImageUpload(files)
    \/ \E files \in FileLists : HandleDrop(files)
    \/ \E i \in 1 .. MaxReading : ReadsSettle(i)
    \/ \E i \in 1 .. MaxReading : ReadFails(i)
    \/ ErrorTimeout
    \/ \E index \in 0 .. (MAX_REFERENCE_IMAGES - 1) : HandleRemoveReferenceImage(index)
    \/ \E index \in 0 .. (MAX_REFERENCE_IMAGES - 1) : DragStart(index)
    \/ \E index \in 0 .. (MAX_REFERENCE_IMAGES - 1) : DragEnter(index)
    \/ HandleSortReferenceImages

SpecStudio == InitStudio /\ [][NextStudio]_vars

(* C26: the number of reference images never exceeds MAX_REFERENCE_IMAGES,
   whatever the interleaving of picker uploads, drops whose reads are still in
   flight, removals and reorderings. *)
C26_AtMostMaxReferenceImages ==
    Len(referenceImages) <= MAX_REFERENCE_IMAGES

----------------------------------------------------------------------------
(* generateVideo, src/services/geminiService.ts lines 152-234, called by
   handleVideoSubmit of VideoGenerator, src/unnamed/part_000 lines 113-125.
   onProgress is setVideoGenerationStatus.  When the promise settles, the catch
   and finally of handleVideoSubmit run in the same microtask checkpoint, before
   any timer, so settling and finishing the handler are one step. *)

MaxPolls == 2

VideoPrompts == {"a cat", "a dog"}

StartImages == {ImageFile([name |-> "start.png", type |-> "image/png"])}

\* lines 178-184
progressMessages ==
    <<"Storyboarding your scene...",
      "Rendering initial frames (this can take a minute)...",
      "Adding details and effects...",
      "This is a complex task, thanks for your patience!",
      "Finalizing the video...">>

\* what the API calls and fetch can throw
KeyNotFound == "Requested entity was not found"

ThrownErrors == {KeyNotFound, "quota exceeded"}

NoDownloadLink == "Video generation completed, but no download link was found."

DownloadFailed == "Failed to download video"

\* the catch of lines 216-233: the reason of the rejection
Rejection(message) ==
    IF message = KeyNotFound
    THEN "API key not found or invalid. Please select a valid API key and try again."
    ELSE message

Settled == videoPc \in {"resolved", "rejected"}

\* the user types a prompt (textarea, part_000 line 169)
SetVideoPrompt(p) ==
    /\ ~videoLoading
    /\ videoPc = "idle"
    /\ p # videoPrompt
    /\ videoPrompt' = p
    /\ UNCHANGED <<startImage, videoLoading, videoError, generatedVideoUrl,
                   videoGenerationStatus, hasApiKey, videoPc, progressInterval,
                   messageIndex, polls, lateProgress>>
    /\ UNCHANGED <<editor, request, studio>>

\* handleStartImageUpload with a readable image file, part_000 lines 101-111
HandleStartImageUpload(image) ==
    /\ ~videoLoading
    /\ videoPc = "idle"
    /\ image # startImage
    /\ startImage' = image
    /\ videoError' = NoError
    /\ generatedVideoUrl' = NoUrl
    /\ UNCHANGED <<videoPrompt, videoLoading, videoGenerationStatus, hasApiKey,
                   videoPc, progressInterval, messageIndex, polls, lateProgress>>
    /\ UNCHANGED <<editor, request, studio>>

\* handleVideoSubmit up to its await (part_000 lines 113-118) and generateVideo
\* up to its first await (lines 158-162); the button is disabled without a prompt
\* and while loading (part_000 line 174)
HandleVideoSubmit ==
    /\ videoPrompt # ""
    /\ ~videoLoading
    /\ videoPc = "idle"
    /\ videoLoading' = TRUE
    /\ videoError' = NoError
    /\ generatedVideoUrl' = NoUrl
    /\ videoGenerationStatus' = "Initiating video generation..."
    /\ videoPc' = "requesting"
    /\ UNCHANGED <<videoPrompt, startImage, hasApiKey, progressInterval, messageIndex,
                   polls, lateProgress>>
    /\ UNCHANGED <<editor, request, studio>>

\* the promise rejects (lines 216-233) and handleVideoSubmit finishes (part_000
\* lines 120-124)
Rejects(message) ==
    /\ videoPc' = "rejected"
    /\ videoError' = Rejection(message)
    /\ hasApiKey' = IF message = KeyNotFound THEN FALSE ELSE hasApiKey
    /\ videoLoading' = FALSE
    /\ videoGenerationStatus' = ""
    /\ UNCHANGED <<videoPrompt, startImage, generatedVideoUrl, lateProgress>>

\* lines 199-208, once operation.done: the timer is cleared, then the download
\* starts or the missing link is thrown (the status "Video processing complete!"
\* of line 200 is overwritten within the same task)
AfterLoop(hasLink) ==
    /\ progressInterval' = "cleared"
    /\ IF hasLink
       THEN /\ videoPc' = "downloading"
            /\ videoGenerationStatus' = "Downloading video..."
            /\ UNCHANGED <<videoPrompt, startImage, videoLoading, videoError,
                           generatedVideoUrl, hasApiKey, lateProgress>>
       ELSE Rejects(NoDownloadLink)

\* generateVideos returns the operation, lines 162-197
RequestReturns(done, hasLink) ==
    /\ videoPc = "requesting"
    /\ messageIndex' = 1
    /\ IF done
       THEN AfterLoop(hasLink)
       ELSE /\ progressInterval' = "active"
            /\ videoPc' = "polling"
            /\ videoGenerationStatus' = progressMessages[1]
            /\ UNCHANGED <<videoPrompt, startImage, videoLoading, videoError,
                           generatedVideoUrl, hasApiKey, lateProgress>>
    /\ UNCHANGED polls
    /\ UNCHANGED <<editor, request, studio>>

\* generateVideos throws, line 162
RequestThrows(message) ==
    /\ videoPc = "requesting"
    /\ Rejects(message)
    /\ UNCHANGED <<progressInterval, messageIndex, polls>>
    /\ UNCHANGED <<editor, request, studio>>

\* the callback of setInterval, lines 188-192
ProgressTick ==
    /\ progressInterval = "active"
    /\ IF messageIndex < Len(progressMessages)
       THEN /\ videoGenerationStatus' = progressMessages[messageIndex + 1]
            /\ messageIndex' = messageIndex + 1
            /\ lateProgress' = (lateProgress \/ Settled)
       ELSE UNCHANGED <<videoGenerationStatus, messageIndex, lateProgress>>
    /\ UNCHANGED <<videoPrompt, startImage, videoLoading, videoError, generatedVideoUrl,
                   hasApiKey, videoPc, progressInterval, polls>>
    /\ UNCHANGED <<editor, request, studio>>

\* a poll returns the operation, lines 194-197
PollReturns(done, hasLink) ==
    /\ videoPc = "polling"
    /\ polls < MaxPolls
    /\ polls' = polls + 1
    /\ IF done
       THEN AfterLoop(hasLink)
       ELSE UNCHANGED <<videoPrompt, startImage, videoLoading, videoError,
                        generatedVideoUrl, videoGenerationStatus, hasApiKey, videoPc,
                        progressInterval, lateProgress>>
    /\ UNCHANGED messageIndex
    /\ UNCHANGED <<editor, request, studio>>

\* getVideosOperation throws, line 196: control goes to the catch of line 216
PollThrows(message) ==
    /\ videoPc = "polling"
    /\ polls < MaxPolls
    /\ polls' = polls + 1
    /\ Rejects(message)
    /\ UNCHANGED <<progressInterval, messageIndex>>
    /\ UNCHANGED <<editor, request, studio>>

\* fetch returns a response, lines 208-213
FetchReturns(ok) ==
    /\ videoPc = "downloading"
    /\ IF ok
       THEN /\ videoPc' = "blob"
            /\ UNCHANGED <<videoPrompt, startImage, videoLoading, videoError,
                           generatedVideoUrl, videoGenerationStatus, hasApiKey,
                           lateProgress>>
       ELSE Rejects(DownloadFailed)
    /\ UNCHANGED <<progressInterval, messageIndex, polls>>
    /\ UNCHANGED <<editor, request, studio>>

\* response.blob() returns: the promise resolves (line 214) and handleVideoSubmit
\* finishes (part_000 lines 119, 124)
BlobReturns ==
    /\ videoPc = "blob"
    /\ videoPc' = "resolved"
    /\ generatedVideoUrl' = "blob:video"
    /\ videoLoading' = FALSE
    /\ videoGenerationStatus' = ""
    /\ UNCHANGED <<videoPrompt, startImage, videoError, hasApiKey, progressInterval,
                   messageIndex, polls, lateProgress>>
    /\ UNCHANGED <<editor, request, studio>>

InitVideo == EditorClosed /\ OutsideIdle

NextVideo ==
    \/ \E p \in VideoPrompts : SetVideoPrompt(p)
    \/ \E image \in StartImages : HandleStartImageUpload(image)
    \/ HandleVideoSubmit
    \/ \E done, hasLink \in BOOLEAN : RequestReturns(done, hasLink)
    \/ \E message \in ThrownErrors : RequestThrows(message)
    \/ ProgressTick
    \/ \E done, hasLink \in BOOLEAN : PollReturns(done, hasLink)
    \/ \E message \in ThrownErrors : PollThrows(message)
    \/ \E ok \in BOOLEAN : FetchReturns(ok)
    \/ BlobReturns

SpecVideo == InitVideo /\ [][NextVideo]_vars

(* C27: once the promise of generateVideo has resolved or rejected, on whatever
   exit path, the progress timer is not running, onProgress has not been called
   since, and the status handleVideoSubmit cleared is still empty. *)
C27_NoProgressAfterSettle ==
    Settled =>
        /\ progressInterval # "active"
        /\ ~lateProgress
        /\ videoGenerationStatus = ""
====
